---- MODULE Spec2Model ----
(***************************************************************************)
(* Mython interpreter: lexer (src/src/lexer.cpp), runtime object model     *)
(* (src/src/runtime.cpp) and statement evaluator (src/src/statement.cpp).  *)
(*                                                                         *)
(* Characters are one-character strings, texts are sequences of them.      *)
(***************************************************************************)
EXTENDS Integers, Sequences, FiniteSets, TLC

VARIABLES
    lx,         \* Lexer::Lexer: the stream, the constructor's locals, _tokens
    cur,        \* Lexer::_current_token, as an index into _tokens (0: not set)
    op,         \* the last cursor call made on the lexer
    ret,        \* the token that call returned
    classes,    \* runtime::Class objects, in order of construction
    heap,       \* runtime::ClassInstance objects, by address
    closure,    \* the module scope
    output,     \* the context's output stream
    last        \* the last evaluator operation and its outcome

lexvars == <<lx, cur, op, ret>>
classvars == <<classes>>
evalvars == <<heap, closure, output, last>>
vars == <<lx, cur, op, ret, classes, heap, closure, output, last>>

(***************************************************************************)
(* Bounds                                                                  *)
(***************************************************************************)
MaxLines == 3
MaxClasses == 3
MaxInstances == 1
MaxOutput == 2
MaxLiteral == 4
MaxSymbols == 3
MaxShared == 2

(***************************************************************************)
(* Characters                                                              *)
(***************************************************************************)
SP == " "
NL == "\n"
HASH == "#"
BSL == "\\"
SQ == "'"
DQ == "\""

Digits == {"0", "1", "2", "3", "4", "5", "6", "7", "8", "9"}

Letters ==
    {"a", "b", "c", "d", "e", "f", "g", "h", "i", "j", "k", "l", "m",
     "n", "o", "p", "q", "r", "s", "t", "u", "v", "w", "x", "y", "z",
     "A", "B", "C", "D", "E", "F", "G", "H", "I", "J", "K", "L", "M",
     "N", "O", "P", "Q", "R", "S", "T", "U", "V", "W", "X", "Y", "Z"}

isdigit(c) == c \in Digits
isalpha(c) == c \in Letters
isalnum(c) == isalpha(c) \/ isdigit(c)

valididsimbol(c) == (c = "_") \/ isalnum(c)

istruespace(c) == c = SP

singl_symbol == {"+", "-", "=", "*", "/", "<", ">", ":", ",", ".", "(", ")"}
doubl_symbol_start == {"=", "!", "<", ">"}

DigitVal(c) ==
    CASE c = "0" -> 0 [] c = "1" -> 1 [] c = "2" -> 2 [] c = "3" -> 3
      [] c = "4" -> 4 [] c = "5" -> 5 [] c = "6" -> 6 [] c = "7" -> 7
      [] c = "8" -> 8 [] c = "9" -> 9

RECURSIVE stoi(_)
stoi(ds) ==
    IF ds = <<>> THEN 0
    ELSE 10 * stoi(SubSeq(ds, 1, Len(ds) - 1)) + DigitVal(ds[Len(ds)])

(***************************************************************************)
(* Tokens                                                                  *)
(***************************************************************************)
Tok(k) == [type |-> k]
ValTok(k, v) == [type |-> k, value |-> v]

Keyword(id) ==
    CASE id = <<"p", "r", "i", "n", "t">> -> "Print"
      [] id = <<"c", "l", "a", "s", "s">> -> "Class"
      [] id = <<"r", "e", "t", "u", "r", "n">> -> "Return"
      [] id = <<"i", "f">> -> "If"
      [] id = <<"e", "l", "s", "e">> -> "Else"
      [] id = <<"d", "e", "f">> -> "Def"
      [] id = <<"a", "n", "d">> -> "And"
      [] id = <<"o", "r">> -> "Or"
      [] id = <<"n", "o", "t">> -> "Not"
      [] id = <<"T", "r", "u", "e">> -> "True"
      [] id = <<"F", "a", "l", "s", "e">> -> "False"
      [] id = <<"N", "o", "n", "e">> -> "None"
      [] OTHER -> "Id"

(***************************************************************************)
(* std::istream, as the lexer uses it: get(ch) leaves ch alone and sets    *)
(* the fail bit at the end of the input; putback does nothing once the     *)
(* fail bit is set.                                                        *)
(***************************************************************************)
CanGet(s) == ~s.fail /\ s.pos <= Len(s.inp)

Get(s) ==
    IF CanGet(s) THEN [s EXCEPT !.ch = s.inp[s.pos], !.pos = s.pos + 1]
    ELSE [s EXCEPT !.fail = TRUE]

Putback(s) == IF s.fail THEN s ELSE [s EXCEPT !.pos = s.pos - 1]

Push(s, t) == [s EXCEPT !.tokens = Append(s.tokens, t)]

(***************************************************************************)
(* Lexer::ParseNumber .. Lexer::ParseComment.  Each takes the lexer state  *)
(* with ch already read and returns the state after the token.             *)
(***************************************************************************)
RECURSIVE ReadDigits(_, _)
ReadDigits(s, buf) ==
    LET s1 == Get(s) IN
    IF ~s1.fail /\ isdigit(s1.ch) THEN ReadDigits(s1, Append(buf, s1.ch))
    ELSE [s |-> s1, buf |-> buf]

ParseNumber(s) ==
    LET r == ReadDigits(s, <<s.ch>>) IN
    Push(Putback(r.s), ValTok("Number", stoi(r.buf)))

RECURSIVE ReadIdentifer(_, _)
ReadIdentifer(s, buf) ==
    LET s1 == Get(s) IN
    IF ~s1.fail /\ valididsimbol(s1.ch) THEN ReadIdentifer(s1, Append(buf, s1.ch))
    ELSE [s |-> s1, buf |-> buf]

ParseIdentifer(s) ==
    LET r == ReadIdentifer(s, <<s.ch>>)
        k == Keyword(r.buf)
        t == IF k = "Id" THEN ValTok("Id", r.buf) ELSE Tok(k)
    IN  Putback(Push(r.s, t))

\* char next = inp.get(): the character read, or EOF (no character of the text)
ParseSymbol(s) ==
    LET isdouble == s.ch \in doubl_symbol_start
        s1 == IF CanGet(s) THEN [s EXCEPT !.pos = s.pos + 1]
              ELSE [s EXCEPT !.fail = TRUE]
        next == IF CanGet(s) THEN s.inp[s.pos] ELSE "EOF"
        two == CASE s.ch = "=" -> "Eq" [] s.ch = "!" -> "NotEq"
                 [] s.ch = "<" -> "LessOrEq" [] s.ch = ">" -> "GreaterOrEq"
        s2 == IF isdouble THEN Putback(s1) ELSE s
    IN  IF isdouble /\ next = "=" THEN Push(s1, Tok(two))
        ELSE IF s.ch \in singl_symbol THEN Push(s2, ValTok("Char", s.ch))
        ELSE s2

\* junk: the value of the uninitialized `next` when inp.get(next) fails
RECURSIVE ReadString(_, _, _, _)
ReadString(s, start, buf, junk) ==
    LET s1 == Get(s) IN
    IF s1.fail \/ s1.ch = start THEN [s |-> s1, buf |-> buf]
    ELSE IF s1.ch = BSL THEN
        LET next == IF CanGet(s1) THEN s1.inp[s1.pos] ELSE junk
            s2 == IF CanGet(s1) THEN [s1 EXCEPT !.pos = s1.pos + 1]
                  ELSE [s1 EXCEPT !.fail = TRUE]
            b2 == IF next = SQ THEN Append(buf, SQ)
                  ELSE IF next = DQ THEN Append(buf, DQ)
                  ELSE buf \o <<s1.ch, next>>
        IN  ReadString(s2, start, b2, junk)
    ELSE ReadString(s1, start, Append(buf, s1.ch), junk)

ParseString(s, junk) ==
    LET r == ReadString(s, s.ch, <<>>, junk) IN
    Push(r.s, ValTok("String", r.buf))

RECURSIVE SkipComment(_)
SkipComment(s) ==
    LET s1 == Get(s) IN
    IF ~s1.fail /\ s1.ch # NL THEN SkipComment(s1) ELSE s1

ParseComment(s) == IF s.ch = HASH THEN SkipComment(s) ELSE s

(***************************************************************************)
(* Lexer::Lexer.  One iteration of while (inp.get(ch)), then the code      *)
(* after the loop.                                                         *)
(***************************************************************************)
RECURSIVE CountSpaces(_, _)
CountSpaces(s, counter) ==
    LET s1 == Get(s) IN
    IF ~s1.fail /\ istruespace(s1.ch) THEN CountSpaces(s1, counter + 1)
    ELSE [s |-> s1, counter |-> counter]

RECURSIVE PushDedents(_, _)
PushDedents(s, n) ==
    IF n <= 0 THEN s
    ELSE PushDedents(
            [Push(s, Tok("Dedent")) EXCEPT !.current_indent = s.current_indent - 1],
            n - 1)

\* a smaller indentation closes one level, whatever the difference
ApplyIndent_OneDedent(s, counter) ==
    LET new_indent == counter \div 2
        ident_delta == new_indent - s.current_indent
    IN  IF counter % 2 # 0 THEN [s EXCEPT !.pc = "error", !.what = "odd-indent"]
        ELSE IF ident_delta = 1 THEN
            [Push(s, Tok("Indent")) EXCEPT !.current_indent = s.current_indent + 1]
        ELSE IF ident_delta < 0 THEN PushDedents(s, 1)
        ELSE IF ident_delta # 0 THEN [s EXCEPT !.pc = "error", !.what = "indent-jump"]
        ELSE s

\* lines 257-274: the indentation of a line that is not empty
ApplyIndent(s, counter) ==
    LET new_indent == counter \div 2
        ident_delta == new_indent - s.current_indent
    IN  IF counter % 2 # 0 THEN [s EXCEPT !.pc = "error", !.what = "odd-indent"]
        ELSE IF ident_delta = 1 THEN
            [Push(s, Tok("Indent")) EXCEPT !.current_indent = s.current_indent + 1]
        ELSE IF ident_delta < 0 THEN PushDedents(s, -ident_delta)
        ELSE IF ident_delta # 0 THEN [s EXCEPT !.pc = "error", !.what = "indent-jump"]
        ELSE s

\* lines 281-306: what follows the indentation block
ScanToken(s, junk) ==
    IF s.new_line /\ s.ch = NL THEN s
    ELSE LET s1 == [s EXCEPT !.new_line = FALSE] IN
         IF s1.ch = NL THEN [Push(s1, Tok("Newline")) EXCEPT !.new_line = TRUE]
         ELSE IF istruespace(s1.ch) THEN s1
         ELSE IF isdigit(s1.ch) THEN ParseNumber(s1)
         ELSE IF isalpha(s1.ch) \/ s1.ch = "_" THEN ParseIdentifer(s1)
         ELSE IF s1.ch \in doubl_symbol_start \cup singl_symbol THEN ParseSymbol(s1)
         ELSE IF s1.ch = SQ \/ s1.ch = DQ THEN ParseString(s1, junk)
         ELSE s1

\* lines 238-307: the body of the loop, for a get(ch) that succeeded
LexIter(s, junk) ==
    LET s1 == ParseComment(Get(s)) IN
    IF s1.new_line /\ (istruespace(s1.ch) \/ s1.current_indent > 0) THEN
        LET c0 == IF istruespace(s1.ch) THEN 1 ELSE 0
            s2 == IF istruespace(s1.ch) THEN s1 ELSE Putback(s1)
            r  == CountSpaces(s2, c0)
        IN  IF r.s.ch # NL THEN
                LET s3 == ApplyIndent(r.s, r.counter) IN
                IF s3.pc = "error" THEN s3 ELSE ScanToken(s3, junk)
            ELSE r.s
    ELSE ScanToken(s1, junk)

\* the open levels are not closed at the end of the input
LexFinish_NoDedents(s) ==
    LET s3 == IF Len(s.tokens) > 0
                 /\ s.tokens[Len(s.tokens)].type \notin {"Newline", "Dedent"}
              THEN Push(s, Tok("Newline")) ELSE s
    IN  [Push(s3, Tok("Eof")) EXCEPT !.fail = TRUE, !.pc = "done"]

\* no Newline is added after the last token
LexFinish_NoNewline(s) ==
    LET s1 == PushDedents(s, s.current_indent)
        s2 == [s1 EXCEPT !.current_indent = s.current_indent]
    IN  [Push(s2, Tok("Eof")) EXCEPT !.fail = TRUE, !.pc = "done"]

\* lines 309-321
LexFinish(s) ==
    LET s1 == PushDedents(s, s.current_indent)
        s2 == [s1 EXCEPT !.current_indent = s.current_indent]
        s3 == IF Len(s2.tokens) > 0
                 /\ s2.tokens[Len(s2.tokens)].type \notin {"Newline", "Dedent"}
              THEN Push(s2, Tok("Newline")) ELSE s2
    IN  [Push(s3, Tok("Eof")) EXCEPT !.fail = TRUE, !.pc = "done"]

LexStart(text) ==
    [inp |-> text, pos |-> 1, fail |-> FALSE, ch |-> "NUL", new_line |-> TRUE,
     current_indent |-> 0, tokens |-> <<>>, pc |-> "loop", what |-> "none"]

\* the whole constructor, as a function of the text
RECURSIVE LexRun(_, _)
LexRun(s, junk) ==
    IF s.pc # "loop" THEN s
    ELSE IF CanGet(s) THEN LexRun(LexIter(s, junk), junk)
    ELSE LexFinish(s)

Lex(text) == LexRun(LexStart(text), "NUL")

(***************************************************************************)
(* Lexer::CurrentToken and Lexer::NextToken, on the index of the cursor    *)
(***************************************************************************)
CurrentTokenAt(tokens, c) == tokens[c]

\* the cursor stops one token before the last
NextTokenPos_StopsEarly(tokens, c) == IF c + 1 < Len(tokens) THEN c + 1 ELSE c

NextTokenPos(tokens, c) == IF c + 1 # Len(tokens) + 1 THEN c + 1 ELSE c

(***************************************************************************)
(* The texts given to the lexer: up to MaxLines lines, each some leading   *)
(* spaces and a body, the last line with or without its newline character. *)
(***************************************************************************)
Spaces(n) == [i \in 1..n |-> SP]

SpaceCounts == {0, 1, 2, 4}

Bodies == {<<>>, <<"a">>, <<HASH, "a">>}

InputLines == {Spaces(n) \o b : n \in SpaceCounts, b \in Bodies}

RECURSIVE JoinLines(_)
JoinLines(ls) ==
    IF ls = <<>> THEN <<>>
    ELSE IF Len(ls) = 1 THEN ls[1]
    ELSE ls[1] \o <<NL>> \o JoinLines(Tail(ls))

\* the texts of up to MaxLiteral quotes, backslashes and letters n
LiteralChars == {SQ, DQ, BSL, "n"}

LiteralTexts == UNION {[1..n -> LiteralChars] : n \in 1..MaxLiteral}

\* the texts of up to MaxSymbols operator characters and letters a
SymbolChars == {"!", "=", "<", "a"}

SymbolTexts == UNION {[1..n -> SymbolChars] : n \in 1..MaxSymbols}

Inputs ==
    {<<>>} \cup LiteralTexts \cup SymbolTexts \cup
    UNION {{JoinLines(ls) \o end : ls \in [1..n -> InputLines], end \in {<<>>, <<NL>>}}
           : n \in 1..MaxLines}

JunkChars == {"NUL", SQ}

NoToken == Tok("none")
NoLast == [op |-> "none", err |-> "none"]

(***************************************************************************)
(* The lexer: construction from a text, then cursor calls                  *)
(***************************************************************************)
LexInit ==
    /\ \E text \in Inputs : lx = LexStart(text)
    /\ cur = 0
    /\ op = "none"
    /\ ret = NoToken
    /\ classes = <<>>
    /\ heap = <<>>
    /\ closure = <<>>
    /\ output = <<>>
    /\ last = NoLast

LexLoop ==
    /\ lx.pc = "loop"
    /\ CanGet(lx)
    /\ \E junk \in JunkChars : lx' = LexIter(lx, junk)
    /\ UNCHANGED <<cur, op, ret, classvars, evalvars>>

LexEnd ==
    /\ lx.pc = "loop"
    /\ ~CanGet(lx)
    /\ lx' = LexFinish(lx)
    /\ cur' = 1
    /\ UNCHANGED <<op, ret, classvars, evalvars>>

CurrentToken ==
    /\ lx.pc = "done"
    /\ op' = "CurrentToken"
    /\ ret' = CurrentTokenAt(lx.tokens, cur)
    /\ UNCHANGED <<lx, cur, classvars, evalvars>>

NextToken ==
    /\ lx.pc = "done"
    /\ op' = "NextToken"
    /\ cur' = NextTokenPos(lx.tokens, cur)
    /\ ret' = CurrentTokenAt(lx.tokens, cur')
    /\ UNCHANGED <<lx, classvars, evalvars>>

LexNext == LexLoop \/ LexEnd \/ CurrentToken \/ NextToken

SpecLex == LexInit /\ [][LexNext]_vars

(***************************************************************************)
(* Lexer claims                                                            *)
(***************************************************************************)
CountType(toks, k) == Cardinality({i \in 1..Len(toks) : toks[i].type = k})

Prefix(toks, n) == SubSeq(toks, 1, n)

Added(s, t) == SubSeq(t.tokens, Len(s.tokens) + 1, Len(t.tokens))

\* C4: when the constructor completes, the tokens hold as many Indent as
\* Dedent tokens, and no prefix of them holds more Dedent than Indent tokens.
C4_IndentDedentBalanced ==
    lx.pc = "done" =>
        /\ CountType(lx.tokens, "Indent") = CountType(lx.tokens, "Dedent")
        /\ \A n \in 1..Len(lx.tokens) :
              CountType(Prefix(lx.tokens, n), "Dedent")
                  <= CountType(Prefix(lx.tokens, n), "Indent")

\* two levels were opened, one closed at a line start and one at the end of input
C4_Witness ==
    /\ lx.pc = "done"
    /\ CountType(lx.tokens, "Indent") >= 2
    /\ lx.current_indent = 1
    /\ lx.tokens[Len(lx.tokens) - 1].type = "Dedent"

\* C5: every non-blank line's last token is followed by a Newline before any
\* Dedent or Eof, the final line without a newline character included: in
\* the tokens of a text without comments, a Dedent or Eof never directly
\* follows a token other than Newline, Dedent or Indent.
C5_NewlineEndsEveryLine ==
    (lx.pc = "done" /\ \A i \in 1..Len(lx.inp) : lx.inp[i] # HASH) =>
        \A i \in 2..Len(lx.tokens) :
            lx.tokens[i].type \in {"Dedent", "Eof"} =>
                lx.tokens[i - 1].type \in {"Newline", "Dedent", "Indent"}

\* the leading spaces of the line that starts at the stream position
RECURSIVE LeadingSpaces(_, _)
LeadingSpaces(text, p) ==
    IF p <= Len(text) /\ text[p] = SP THEN 1 + LeadingSpaces(text, p + 1) ELSE 0

AtLineStart(s) == s.pc = "loop" /\ s.new_line /\ CanGet(s)

NonBlankLine(s) ==
    LET q == s.pos + LeadingSpaces(s.inp, s.pos) IN
    q <= Len(s.inp) /\ s.inp[q] \notin {NL, HASH}

IndentOutcome(s, t, nIndent, nDedent, level) ==
    /\ t.pc # "error"
    /\ CountType(Added(s, t), "Indent") = nIndent
    /\ CountType(Added(s, t), "Dedent") = nDedent
    /\ t.current_indent = level

IndentError(s, t, kind) == t.pc = "error" /\ t.what = kind /\ t.tokens = s.tokens

\* C6: at the start of a non-blank line with c leading spaces at level prev
\* the lexer raises LexerError if c is odd, emits nothing if c/2 = prev, one
\* Indent (level prev+1) if c/2 = prev+1, prev - c/2 Dedents (level c/2) if
\* c/2 < prev, and raises LexerError if c/2 > prev+1.
C6_IndentProtocol ==
    [][(AtLineStart(lx) /\ NonBlankLine(lx)) =>
        LET c == LeadingSpaces(lx.inp, lx.pos)
            prev == lx.current_indent
        IN  IF c % 2 = 1 THEN IndentError(lx, lx', "odd-indent")
            ELSE IF c \div 2 = prev THEN IndentOutcome(lx, lx', 0, 0, prev)
            ELSE IF c \div 2 = prev + 1 THEN IndentOutcome(lx, lx', 1, 0, prev + 1)
            ELSE IF c \div 2 < prev THEN IndentOutcome(lx, lx', 0, prev - c \div 2, c \div 2)
            ELSE IndentError(lx, lx', "indent-jump")]_vars

\* a line start has closed two levels at once
C6_Witness ==
    /\ lx.pc = "loop"
    /\ lx.current_indent = 0
    /\ \E i \in 1..(Len(lx.tokens) - 2) :
          /\ lx.tokens[i].type = "Dedent"
          /\ lx.tokens[i + 1].type = "Dedent"
          /\ lx.tokens[i + 2].type = "Id"

\* the text without its comments: every run from # up to the end of its line
RECURSIVE StripComments(_, _)
StripComments(text, incomment) ==
    IF text = <<>> THEN <<>>
    ELSE IF Head(text) = NL THEN <<NL>> \o StripComments(Tail(text), FALSE)
    ELSE IF incomment \/ Head(text) = HASH THEN StripComments(Tail(text), TRUE)
    ELSE <<Head(text)>> \o StripComments(Tail(text), FALSE)

\* C7: the tokens of a text are the tokens of the text without its comments.
C7_CommentsEmitNothing ==
    lx.pc = "done" =>
        LET plain == Lex(StripComments(lx.inp, FALSE)) IN
        plain.pc = "done" /\ plain.tokens = lx.tokens

\* C8: CurrentToken leaves the cursor and returns the token under it;
\* NextToken moves the cursor one token forward and returns that token,
\* except on the final Eof, where it stays and returns Eof.
C8_CursorProtocol ==
    [][lx.pc = "done" =>
        /\ lx' = lx
        /\ op' = "CurrentToken" => (cur' = cur /\ ret' = lx.tokens[cur])
        /\ op' = "NextToken" =>
              IF cur < Len(lx.tokens)
              THEN cur' = cur + 1 /\ ret' = lx.tokens[cur + 1]
              ELSE cur' = cur /\ ret' = Tok("Eof")]_vars

\* NextToken was called with the cursor already on the final Eof
C8_Witness ==
    /\ lx.pc = "done"
    /\ Len(lx.tokens) >= 3
    /\ cur = Len(lx.tokens)
    /\ op = "NextToken"
    /\ ret = Tok("Eof")

BadOperatorAt(text, i) ==
    /\ text[i] = "!"
    /\ (i = Len(text) \/ text[i + 1] # "=")

\* C21: a text of operator characters holding a '!' that is not immediately
\* followed by '=' ends lexing with a LexerError, and no token sequence is
\* produced.
C21_BadOperatorRaises ==
    (lx.pc # "loop" /\ lx.inp \in SymbolTexts
        /\ \E i \in 1..Len(lx.inp) : BadOperatorAt(lx.inp, i))
    => lx.pc = "error"

\* the line that starts at the stream position is made only of spaces
SpacesOnlyLine(s) ==
    LET q == s.pos + LeadingSpaces(s.inp, s.pos) IN
    q > s.pos /\ (q > Len(s.inp) \/ s.inp[q] = NL)

Blank(text) == \A i \in 1..Len(text) : text[i] \in {SP, NL}

\* the step over a line made only of spaces pushes no token, keeps the
\* indentation level and raises no error
BlankLineSkipped ==
    (AtLineStart(lx) /\ SpacesOnlyLine(lx))
    => /\ lx'.pc # "error"
       /\ lx'.tokens = lx.tokens
       /\ lx'.current_indent = lx.current_indent

\* C22: a line made only of spaces emits no token and leaves the indentation
\* level unchanged whatever its space count, and a text made only of spaces
\* and newline characters, the empty text included, lexes to [Eof] without a
\* LexerError.
C22_BlankLinesIgnored ==
    /\ [][BlankLineSkipped]_vars
    /\ []((lx.pc # "loop" /\ Blank(lx.inp))
            => (lx.pc = "done" /\ lx.tokens = <<Tok("Eof")>>))

\* the character an escape denotes
EscapeChars == {"n", "t", "r", SQ, DQ, BSL}

Denotes(c) ==
    CASE c = "n" -> NL [] c = "t" -> "\t" [] c = "r" -> "\r"
      [] c = SQ -> SQ [] c = DQ -> DQ [] c = BSL -> BSL

\* the body of a literal delimited by q: characters other than q and
\* backslash, and escapes
RECURSIVE IsBody(_, _)
IsBody(body, q) ==
    IF body = <<>> THEN TRUE
    ELSE IF Head(body) = BSL
         THEN Len(body) >= 2 /\ body[2] \in EscapeChars /\ IsBody(Tail(Tail(body)), q)
    ELSE Head(body) # q /\ IsBody(Tail(body), q)

RECURSIVE Denoted(_)
Denoted(body) ==
    IF body = <<>> THEN <<>>
    ELSE IF Head(body) = BSL THEN <<Denotes(body[2])>> \o Denoted(Tail(Tail(body)))
    ELSE <<Head(body)>> \o Denoted(Tail(body))

IsLiteral(text) ==
    /\ Len(text) >= 2
    /\ text[1] \in {SQ, DQ}
    /\ text[Len(text)] = text[1]
    /\ IsBody(SubSeq(text, 2, Len(text) - 1), text[1])

\* C20: a string literal lexes to one String token whose payload is the
\* body with each escape replaced by the character it denotes; an escaped
\* quote does not end the literal.
C20_EscapesProcessed ==
    (lx.pc = "done" /\ IsLiteral(lx.inp)) =>
        lx.tokens = <<ValTok("String", Denoted(SubSeq(lx.inp, 2, Len(lx.inp) - 1))),
                      Tok("Newline"), Tok("Eof")>>

(***************************************************************************)
(* runtime::Class.  A method pointer is the class that owns the method and *)
(* the method's position in that class's methods_; NoMethod is nullptr.    *)
(***************************************************************************)
NoMethod == [owner |-> 0, idx |-> 0]

MapPut(map, k, v) == [n \in (DOMAIN map) \cup {k} |-> IF n = k THEN v ELSE map[n]]

RECURSIVE InsertOwn(_, _, _, _)
InsertOwn(map, methods, self, i) ==
    IF i > Len(methods) THEN map
    ELSE InsertOwn(MapPut(map, methods[i].name, [owner |-> self, idx |-> i]),
                   methods, self, i + 1)

\* the parent's entries are written over the class's own
ClassCtor_ParentWins(table, self, name, methods, parent) ==
    LET inherited == IF parent # 0 THEN table[parent].name_to_method ELSE <<>>
        own == InsertOwn(<<>>, methods, self, 1)
    IN  [name |-> name, methods |-> methods, parent |-> parent,
         name_to_method |->
            [n \in (DOMAIN own) \cup (DOMAIN inherited) |->
                IF n \in DOMAIN inherited THEN inherited[n] ELSE own[n]]]

\* Class::Class, for the class constructed as number self after table
ClassCtor(table, self, name, methods, parent) ==
    LET inherited == IF parent # 0 THEN table[parent].name_to_method ELSE <<>>
    IN  [name |-> name, methods |-> methods, parent |-> parent,
         name_to_method |-> InsertOwn(inherited, methods, self, 1)]

GetMethod(cls, name) ==
    IF name \in DOMAIN cls.name_to_method THEN cls.name_to_method[name]
    ELSE NoMethod

MethodAt(table, ptr) == table[ptr.owner].methods[ptr.idx]

(***************************************************************************)
(* Class hierarchies: classes constructed one after the other, each with   *)
(* a list of methods and with no parent or an earlier class as its parent  *)
(***************************************************************************)
MethodNames == {"f", "g"}

NoBody == [node |-> "None"]

NamedMethod(m) == [name |-> m, formal_params |-> <<>>, body |-> NoBody]

MethodLists ==
    {<<>>, <<NamedMethod("f")>>, <<NamedMethod("g")>>,
     <<NamedMethod("f"), NamedMethod("g")>>, <<NamedMethod("g"), NamedMethod("f")>>,
     <<NamedMethod("f"), NamedMethod("f")>>}

ClassInit ==
    /\ classes = <<>>
    /\ lx = LexStart(<<>>)
    /\ cur = 0
    /\ op = "none"
    /\ ret = NoToken
    /\ heap = <<>>
    /\ closure = <<>>
    /\ output = <<>>
    /\ last = NoLast

DefineClass ==
    /\ Len(classes) < MaxClasses
    /\ \E methods \in MethodLists, parent \in 0..Len(classes) :
          classes' = Append(classes,
              ClassCtor(classes, Len(classes) + 1, "C", methods, parent))
    /\ UNCHANGED <<lexvars, evalvars>>

ClassNext == DefineClass

SpecClass == ClassInit /\ [][ClassNext]_vars

Defines(cls, m) == \E i \in 1..Len(cls.methods) : cls.methods[i].name = m

RECURSIVE Depth(_, _)
Depth(table, c) == IF table[c].parent = 0 THEN 1 ELSE 1 + Depth(table, table[c].parent)

\* C10: GetMethod(m) on a class is the class's own method m if it defines
\* one, otherwise GetMethod(m) on its parent, and absent without a parent.
C10_MethodResolution ==
    \A c \in 1..Len(classes), m \in MethodNames :
        LET cls == classes[c]
            got == GetMethod(cls, m)
        IN  IF Defines(cls, m)
            THEN got.owner = c /\ cls.methods[got.idx].name = m
            ELSE IF cls.parent # 0 THEN got = GetMethod(classes[cls.parent], m)
            ELSE got = NoMethod

\* a class at depth three inherits f from its grandparent, whose child
\* overrides g
C10_Witness ==
    \E c \in 1..Len(classes) :
        /\ Depth(classes, c) = 3
        /\ ~Defines(classes[c], "f")
        /\ ~Defines(classes[classes[c].parent], "f")
        /\ GetMethod(classes[c], "f") # NoMethod
        /\ Defines(classes[classes[c].parent], "g")
        /\ Defines(classes[classes[classes[c].parent].parent], "g")

(***************************************************************************)
(* Runtime values.  An ObjectHolder is None or a Number, a Bool, a String  *)
(* (a text), a Class (its number) or a ClassInstance (its address).        *)
(***************************************************************************)
None == [t |-> "None"]
Num(n) == [t |-> "Number", n |-> n]
Boolean(b) == [t |-> "Bool", b |-> b]
Str(txt) == [t |-> "String", s |-> txt]
ClassRef(c) == [t |-> "Class", c |-> c]
Inst(a) == [t |-> "Instance", a |-> a]

IsInst(v) == v.t = "Instance"

ClassOf(hp, a) == classes[hp[a].cls]

\* ClassInstance::HasMethod
HasMethod(cls, method, argument_count) ==
    LET method_ptr == GetMethod(cls, method) IN
    IF method_ptr = NoMethod THEN FALSE
    ELSE Len(MethodAt(classes, method_ptr).formal_params) = argument_count

(***************************************************************************)
(* The state an Execute call works on: the scope it was given, the         *)
(* instances, the context's stream, the exception in flight (err), and a   *)
(* log of the method bodies that ClassInstance::Call has started.          *)
(***************************************************************************)
ExecState(clo, hp, out) ==
    [closure |-> clo, heap |-> hp, output |-> out, err |-> "none", what |-> "none",
     log |-> <<>>, depth |-> 0, ub |-> "trap"]

\* what an operation without defined behaviour does in this run: the process
\* is stopped by a trap, or it goes on with the bits it finds (0 or 1)
UndefinedOutcomes == {"trap", "zero", "one"}

ExecStateUB(clo, hp, out, ub) == [ExecState(clo, hp, out) EXCEPT !.ub = ub]

Ok(st) == st.err = "none"
Throw(st, what) == [st EXCEPT !.err = "runtime_error", !.what = what]
\* a null pointer is dereferenced
Undefined(st, what) == [st EXCEPT !.err = "undefined", !.what = what]
Res(st, v) == [st |-> st, val |-> v]
Write(st, txt) == [st EXCEPT !.output = st.output \o txt]

DigitChar(d) ==
    CASE d = 0 -> "0" [] d = 1 -> "1" [] d = 2 -> "2" [] d = 3 -> "3"
      [] d = 4 -> "4" [] d = 5 -> "5" [] d = 6 -> "6" [] d = 7 -> "7"
      [] d = 8 -> "8" [] d = 9 -> "9"

RECURSIVE DecimalText(_)
DecimalText(n) ==
    IF n < 0 THEN <<"-">> \o DecimalText(-n)
    ELSE IF n < 10 THEN <<DigitChar(n)>>
    ELSE DecimalText(n \div 10) \o <<DigitChar(n % 10)>>

TrueText == <<"T", "r", "u", "e">>
FalseText == <<"F", "a", "l", "s", "e">>
NoneText == <<"N", "o", "n", "e">>
ClassText == <<"C", "l", "a", "s", "s", " ">>
\* os << this
AddressText(a) == <<"0", "x">> \o DecimalText(a)

RECURSIVE Execute(_, _)
RECURSIVE Call(_, _, _, _)

\* Object::Print of a value that is not None
RECURSIVE PrintObject(_, _)
PrintObject(st, v) ==
    CASE v.t = "Number" -> Write(st, DecimalText(v.n))
      [] v.t = "Bool" -> Write(st, IF v.b THEN TrueText ELSE FalseText)
      [] v.t = "String" -> Write(st, v.s)
      [] v.t = "Class" -> Write(st, ClassText \o classes[v.c].name)
      [] v.t = "Instance" ->
            IF GetMethod(ClassOf(st.heap, v.a), "__str__") # NoMethod THEN
                LET r == Call(st, v.a, "__str__", <<>>) IN
                IF ~Ok(r.st) THEN r.st
                ELSE IF r.val = None THEN Undefined(r.st, "res->Print on None")
                ELSE PrintObject(r.st, r.val)
            ELSE Write(st, AddressText(v.a))

\* the statements of a list in order, up to the first that throws
RECURSIVE ExecuteAll(_, _, _)
ExecuteAll(nodes, st, vals) ==
    IF Len(vals) = Len(nodes) THEN [st |-> st, vals |-> vals]
    ELSE LET r == Execute(nodes[Len(vals) + 1], st) IN
         IF Ok(r.st) THEN ExecuteAll(nodes, r.st, Append(vals, r.val))
         ELSE [st |-> r.st, vals |-> vals]

\* the right side is evaluated before closure[var_] is touched
ExecAssignment(n, st) ==
    LET r == Execute(n.rv, st) IN
    IF Ok(r.st)
    THEN Res([r.st EXCEPT !.closure = MapPut(r.st.closure, n.var, r.val)], r.val)
    ELSE r

RECURSIVE Resolve(_, _, _, _)
Resolve(st, ids, i, cur_closure) ==
    IF ids[i] \notin DOMAIN cur_closure THEN Res(Throw(st, "variable is not found"), None)
    ELSE LET v == cur_closure[ids[i]] IN
         IF ~IsInst(v) \/ i = Len(ids) THEN Res(st, v)
         ELSE Resolve(st, ids, i + 1, st.heap[v.a].fields)

ExecVariableValue(n, st) == Resolve(st, n.dotted_ids, 1, st.closure)

RECURSIVE PrintArgs(_, _, _)
PrintArgs(args, st, i) ==
    IF i > Len(args) THEN Write(st, <<NL>>)
    ELSE LET s1 == IF i # 1 THEN Write(st, <<SP>>) ELSE st
             r == Execute(args[i], s1)
             s2 == IF ~Ok(r.st) THEN r.st
                   ELSE IF r.val # None THEN PrintObject(r.st, r.val)
                   ELSE Write(r.st, NoneText)
         IN  IF Ok(s2) THEN PrintArgs(args, s2, i + 1) ELSE s2

ExecPrint(n, st) == Res(PrintArgs(n.args, st, 1), None)

ExecMethodCall(n, st) ==
    LET obj == Execute(n.object, st) IN
    IF ~Ok(obj.st) THEN obj
    ELSE LET a == ExecuteAll(n.args, obj.st, <<>>) IN
         IF ~Ok(a.st) THEN Res(a.st, None)
         ELSE IF ~IsInst(obj.val) THEN Res(Undefined(a.st, "instance_ptr->Call"), None)
         ELSE Call(a.st, obj.val.a, n.method, a.vals)

\* the error of a statement ends the Compound, which returns normally
ExecCompound_CatchesErrors(n, st) ==
    LET r == ExecuteAll(n.statements, st, <<>>) IN
    Res([r.st EXCEPT !.err = "none", !.what = "none"], None)

ExecCompound(n, st) ==
    LET r == ExecuteAll(n.statements, st, <<>>) IN Res(r.st, None)

ExecReturn(n, st) == Execute(n.statement, st)

ExecClassDefinition(n, st) ==
    Res([st EXCEPT !.closure = MapPut(st.closure, classes[n.cls].name, ClassRef(n.cls))],
        None)

\* the fields are kept once for the class: every instance of it sees the write
ExecFieldAssignment_PerClass(n, st) ==
    LET o == ExecVariableValue(n.object, st) IN
    IF ~Ok(o.st) THEN o
    ELSE IF ~IsInst(o.val) THEN Res(Undefined(o.st, "class_instance_ptr->Fields"), None)
    ELSE LET r == Execute(n.rv, o.st) IN
         IF ~Ok(r.st) THEN r
         ELSE Res([r.st EXCEPT !.heap =
                       [a \in DOMAIN r.st.heap |->
                           IF r.st.heap[a].cls = r.st.heap[o.val.a].cls
                           THEN [r.st.heap[a] EXCEPT !.fields =
                                    MapPut(r.st.heap[a].fields, n.field_name, r.val)]
                           ELSE r.st.heap[a]]],
                  r.val)

ExecFieldAssignment(n, st) ==
    LET o == ExecVariableValue(n.object, st) IN
    IF ~Ok(o.st) THEN o
    ELSE IF ~IsInst(o.val) THEN Res(Undefined(o.st, "class_instance_ptr->Fields"), None)
    ELSE LET r == Execute(n.rv, o.st) IN
         IF ~Ok(r.st) THEN r
         ELSE Res([r.st EXCEPT !.heap[o.val.a].fields =
                       MapPut(r.st.heap[o.val.a].fields, n.field_name, r.val)],
                  r.val)

ExecIfElse(n, st) ==
    LET c == Execute(n.condition, st) IN
    IF ~Ok(c.st) THEN c
    ELSE IF c.val.t = "Bool" THEN
        IF c.val.b THEN Execute(n.if_body, c.st) ELSE Execute(n.else_body, c.st)
    ELSE Res(c.st, None)

\* the arguments are not evaluated and __init__ is not looked up
ExecNewInstance(n, st) ==
    Res([st EXCEPT !.heap = Append(st.heap, [cls |-> n.class_ref, fields |-> <<>>])],
        Inst(Len(st.heap) + 1))

ExecMethodBody(n, st) == Execute(n.body, st)

IsNull(n) == n.node = "nullptr"

\* lhs_->Execute, then rhs_->Execute, as the binary operations call them
ExecuteBoth(n, st) ==
    LET l == Execute(n.lhs, st) IN
    IF ~Ok(l.st) THEN [st |-> l.st, lhs |-> None, rhs |-> None]
    ELSE LET r == Execute(n.rhs, l.st) IN
         [st |-> r.st, lhs |-> l.val, rhs |-> r.val]

\* int: 32 bits, two's complement
IntMax == 2147483647
IntMin == -IntMax - 1

\* |k|, for k above IntMin
Abs(k) == IF k < 0 THEN -k ELSE k

\* whether l - r, l * r and l / r are values of int, found without
\* computing a number outside int
SubFits(l, r) == IF r >= 0 THEN l >= IntMin + r ELSE l <= IntMax + r

MultFits(l, r) ==
    IF l = 0 \/ r = 0 THEN TRUE
    ELSE IF l = IntMin THEN r = 1
    ELSE IF r = IntMin THEN l = 1
    ELSE \/ Abs(l) <= IntMax \div Abs(r)
         \/ /\ (l < 0) # (r < 0)
            /\ IntMax % Abs(r) = Abs(r) - 1
            /\ Abs(l) = IntMax \div Abs(r) + 1

DivFits(l, r) == ~(l = IntMin /\ r = -1)

\* l / r of int, r not 0: the quotient rounded towards zero
Quotient(l, r) ==
    IF r = IntMin THEN (IF l = IntMin THEN 1 ELSE 0)
    ELSE IF l = IntMin THEN
        LET q == IntMax \div Abs(r) + (IF IntMax % Abs(r) = Abs(r) - 1 THEN 1 ELSE 0)
        IN  IF r < 0 THEN q ELSE -q
    ELSE LET q == Abs(l) \div Abs(r)
         IN  IF (l < 0) = (r < 0) THEN q ELSE -q

\* a signed operation whose result is not a value of int has no defined
\* behaviour: the process is stopped, or it goes on with some int
Overflow(st) ==
    IF st.ub = "trap" THEN Res(Undefined(st, "signed overflow"), None)
    ELSE Res(st, Num(IF st.ub = "one" THEN 1 ELSE 0))

ExecSub(n, st) ==
    IF IsNull(n.rhs) \/ IsNull(n.lhs) THEN Res(Throw(st, "null in sub operation"), None)
    ELSE LET b == ExecuteBoth(n, st) IN
         IF ~Ok(b.st) THEN Res(b.st, None)
         ELSE IF b.lhs.t = "Number" /\ b.rhs.t = "Number"
              THEN (IF SubFits(b.lhs.n, b.rhs.n) THEN Res(b.st, Num(b.lhs.n - b.rhs.n))
                    ELSE Overflow(b.st))
         ELSE Res(Throw(b.st, "incorrect sub arguments"), None)

ExecMult(n, st) ==
    IF IsNull(n.rhs) \/ IsNull(n.lhs) THEN Res(Throw(st, "null in mult operation"), None)
    ELSE LET b == ExecuteBoth(n, st) IN
         IF ~Ok(b.st) THEN Res(b.st, None)
         ELSE IF b.lhs.t = "Number" /\ b.rhs.t = "Number"
              THEN (IF MultFits(b.lhs.n, b.rhs.n) THEN Res(b.st, Num(b.lhs.n * b.rhs.n))
                    ELSE Overflow(b.st))
         ELSE Res(Throw(b.st, "incorrect mult arguments"), None)

\* the divisor is not tested
ExecDiv_NoZeroTest(n, st) ==
    IF IsNull(n.rhs) \/ IsNull(n.lhs) THEN Res(Throw(st, "null in Div operation"), None)
    ELSE LET b == ExecuteBoth(n, st) IN
         IF ~Ok(b.st) THEN Res(b.st, None)
         ELSE IF b.lhs.t = "Number" /\ b.rhs.t = "Number" THEN
              IF b.rhs.n = 0 THEN Res(b.st, Num(0))
              ELSE IF DivFits(b.lhs.n, b.rhs.n)
                   THEN Res(b.st, Num(Quotient(b.lhs.n, b.rhs.n)))
              ELSE Overflow(b.st)
         ELSE Res(Throw(b.st, "incorrect Div arguments"), None)

ExecDiv(n, st) ==
    IF IsNull(n.rhs) \/ IsNull(n.lhs) THEN Res(Throw(st, "null in Div operation"), None)
    ELSE LET b == ExecuteBoth(n, st) IN
         IF ~Ok(b.st) THEN Res(b.st, None)
         ELSE IF b.lhs.t = "Number" /\ b.rhs.t = "Number" THEN
              IF b.rhs.n = 0 THEN Res(Throw(b.st, "zero divizion"), None)
              ELSE IF DivFits(b.lhs.n, b.rhs.n)
                   THEN Res(b.st, Num(Quotient(b.lhs.n, b.rhs.n)))
              ELSE Overflow(b.st)
         ELSE Res(Throw(b.st, "incorrect Div arguments"), None)

\* the right operand is skipped when the left one is true
ExecOr_ShortCircuit(n, st) ==
    IF IsNull(n.rhs) \/ IsNull(n.lhs) THEN Res(Throw(st, "null in OR operation"), None)
    ELSE LET l == Execute(n.lhs, st) IN
         IF ~Ok(l.st) THEN Res(l.st, None)
         ELSE IF l.val.t = "Bool" /\ l.val.b THEN Res(l.st, Boolean(TRUE))
         ELSE LET r == Execute(n.rhs, l.st) IN
              IF ~Ok(r.st) THEN Res(r.st, None)
              ELSE IF l.val.t = "Bool" /\ r.val.t = "Bool"
                   THEN Res(r.st, Boolean(l.val.b \/ r.val.b))
              ELSE Res(Throw(r.st, "invalid OR operands"), None)

ExecOr(n, st) ==
    IF IsNull(n.rhs) \/ IsNull(n.lhs) THEN Res(Throw(st, "null in OR operation"), None)
    ELSE LET b == ExecuteBoth(n, st) IN
         IF ~Ok(b.st) THEN Res(b.st, None)
         ELSE IF b.lhs.t = "Bool" /\ b.rhs.t = "Bool"
              THEN Res(b.st, Boolean(b.lhs.b \/ b.rhs.b))
         ELSE Res(Throw(b.st, "invalid OR operands"), None)

ExecAnd(n, st) ==
    IF IsNull(n.rhs) \/ IsNull(n.lhs) THEN Res(Throw(st, "null in AND operation"), None)
    ELSE LET b == ExecuteBoth(n, st) IN
         IF ~Ok(b.st) THEN Res(b.st, None)
         ELSE IF b.lhs.t = "Bool" /\ b.rhs.t = "Bool"
              THEN Res(b.st, Boolean(b.lhs.b /\ b.rhs.b))
         ELSE Res(Throw(b.st, "invalid AND operands"), None)

ExecNot(n, st) ==
    LET r == Execute(n.operation, st) IN
    IF ~Ok(r.st) THEN r
    ELSE IF r.val.t = "Bool" THEN Res(r.st, Boolean(~r.val.b))
    ELSE Res(Throw(r.st, "invalid AND operands"), None)

Execute(n, st) ==
    CASE n.node = "nullptr" -> Res(Undefined(st, "null statement"), None)
      [] n.node = "Assignment" -> ExecAssignment(n, st)
      [] n.node = "VariableValue" -> ExecVariableValue(n, st)
      [] n.node = "Print" -> ExecPrint(n, st)
      [] n.node = "MethodCall" -> ExecMethodCall(n, st)
      [] n.node = "Compound" -> ExecCompound(n, st)
      [] n.node = "Return" -> ExecReturn(n, st)
      [] n.node = "ClassDefinition" -> ExecClassDefinition(n, st)
      [] n.node = "FieldAssignment" -> ExecFieldAssignment(n, st)
      [] n.node = "IfElse" -> ExecIfElse(n, st)
      [] n.node = "NewInstance" -> ExecNewInstance(n, st)
      [] n.node = "MethodBody" -> ExecMethodBody(n, st)
      [] n.node = "Sub" -> ExecSub(n, st)
      [] n.node = "Mult" -> ExecMult(n, st)
      [] n.node = "Div" -> ExecDiv(n, st)
      [] n.node = "Or" -> ExecOr(n, st)
      [] n.node = "And" -> ExecAnd(n, st)
      [] n.node = "Not" -> ExecNot(n, st)

\* lines 118-124: closure["self"], then closure[arg] = actual_args[i] in order
RECURSIVE BindParams(_, _, _, _)
BindParams(frame, formal_params, actual_args, i) ==
    IF i > Len(formal_params) THEN frame
    ELSE BindParams(MapPut(frame, formal_params[i], actual_args[i]),
                    formal_params, actual_args, i + 1)

\* the frame without self
CallFrame_NoSelf(a, formal_params, actual_args) ==
    BindParams(<<>>, formal_params, actual_args, 1)

CallFrame(a, formal_params, actual_args) ==
    BindParams(MapPut(<<>>, "self", Inst(a)), formal_params, actual_args, 1)

\* the body's scope is handed back to the caller
CallReturn_KeepsFrame(st, r) == Res([r.st EXCEPT !.depth = st.depth], r.val)

\* the call frame is a local of Call: the caller's scope is the one it had
CallReturn(st, r) ==
    Res([r.st EXCEPT !.closure = st.closure, !.depth = st.depth], r.val)

\* ClassInstance::Call on the instance at address a
Call(st, a, method, actual_args) ==
    LET cls == ClassOf(st.heap, a) IN
    IF ~HasMethod(cls, method, Len(actual_args))
    THEN Res(Throw(st, "No method found"), None)
    ELSE LET method_ptr == GetMethod(cls, method)
             m == MethodAt(classes, method_ptr)
             frame == CallFrame(a, m.formal_params, actual_args)
             entry == [method_ptr |-> method_ptr, frame |-> frame, depth |-> st.depth + 1]
             r == Execute(m.body,
                          [st EXCEPT !.closure = frame, !.depth = st.depth + 1,
                                     !.log = Append(st.log, entry)])
         IN  CallReturn(st, r)

(***************************************************************************)
(* runtime::Equal .. runtime::GreaterOrEqual.  Each returns the state      *)
(* after the call and the bool it returned (res), or the exception.        *)
(***************************************************************************)
CmpRes(st, b) == [st |-> st, res |-> b]

\* the codes of the characters the texts of the model are made of
CharCode(c) == CASE c = "a" -> 97 [] c = "b" -> 98

\* std::less<std::string>
RECURSIVE LessText(_, _)
LessText(u, v) ==
    IF v = <<>> THEN FALSE
    ELSE IF u = <<>> THEN TRUE
    ELSE IF CharCode(Head(u)) # CharCode(Head(v)) THEN CharCode(Head(u)) < CharCode(Head(v))
    ELSE LessText(Tail(u), Tail(v))

\* CmpOpImpl<T> succeeds for some T of Number, Bool, String
SamePrimitive(lhs, rhs) == lhs.t = rhs.t /\ lhs.t \in {"Number", "Bool", "String"}

EqualPrimitive(lhs, rhs) ==
    CASE lhs.t = "Number" -> lhs.n = rhs.n
      [] lhs.t = "Bool" -> lhs.b = rhs.b
      [] lhs.t = "String" -> lhs.s = rhs.s

LessPrimitive(lhs, rhs) ==
    CASE lhs.t = "Number" -> lhs.n < rhs.n
      [] lhs.t = "Bool" -> ~lhs.b /\ rhs.b
      [] lhs.t = "String" -> LessText(lhs.s, rhs.s)

\* res.TryAs<Bool>()->GetValue() on what the method returned: a null
\* pointer is read when that is not a Bool
ReadBool(r) ==
    IF ~Ok(r.st) THEN CmpRes(r.st, FALSE)
    ELSE IF r.val.t = "Bool" THEN CmpRes(r.st, r.val.b)
    ELSE IF r.st.ub = "trap" THEN CmpRes(Undefined(r.st, "TryAs<Bool>()->GetValue"), FALSE)
    ELSE CmpRes(r.st, r.st.ub = "one")

\* two values of different kinds are unequal, without an error
Equal_Lenient(st, lhs, rhs) ==
    IF lhs = None /\ rhs = None THEN CmpRes(st, TRUE)
    ELSE IF SamePrimitive(lhs, rhs) THEN CmpRes(st, EqualPrimitive(lhs, rhs))
    ELSE IF IsInst(lhs) /\ HasMethod(ClassOf(st.heap, lhs.a), "__eq__", 1)
         THEN ReadBool(Call(st, lhs.a, "__eq__", <<rhs>>))
    ELSE CmpRes(st, FALSE)

Equal(st, lhs, rhs) ==
    IF lhs = None /\ rhs = None THEN CmpRes(st, TRUE)
    ELSE IF SamePrimitive(lhs, rhs) THEN CmpRes(st, EqualPrimitive(lhs, rhs))
    ELSE IF IsInst(lhs) /\ HasMethod(ClassOf(st.heap, lhs.a), "__eq__", 1)
         THEN ReadBool(Call(st, lhs.a, "__eq__", <<rhs>>))
    ELSE CmpRes(Throw(st, "Cannot compare objects for equality"), FALSE)

Less(st, lhs, rhs) ==
    IF SamePrimitive(lhs, rhs) THEN CmpRes(st, LessPrimitive(lhs, rhs))
    ELSE IF IsInst(lhs) /\ HasMethod(ClassOf(st.heap, lhs.a), "__lt__", 1)
         THEN ReadBool(Call(st, lhs.a, "__lt__", <<rhs>>))
    ELSE CmpRes(Throw(st, "Cannot compare objects with less"), FALSE)

NotEqual(st, lhs, rhs) ==
    LET e == Equal(st, lhs, rhs) IN
    IF Ok(e.st) THEN CmpRes(e.st, ~e.res) ELSE e

\* greater is taken for not less
Greater_NotLess(st, lhs, rhs) ==
    LET l == Less(st, lhs, rhs) IN
    IF Ok(l.st) THEN CmpRes(l.st, ~l.res) ELSE l

\* !Less(...) && !Equal(...): Equal is called only when Less returned false
Greater(st, lhs, rhs) ==
    LET l == Less(st, lhs, rhs) IN
    IF ~Ok(l.st) \/ l.res THEN CmpRes(l.st, FALSE)
    ELSE LET e == Equal(l.st, lhs, rhs) IN
         IF Ok(e.st) THEN CmpRes(e.st, ~e.res) ELSE e

\* Less(...) || Equal(...): Equal is called only when Less returned false
LessOrEqual(st, lhs, rhs) ==
    LET l == Less(st, lhs, rhs) IN
    IF ~Ok(l.st) \/ l.res THEN l
    ELSE Equal(l.st, lhs, rhs)

GreaterOrEqual(st, lhs, rhs) ==
    LET l == Less(st, lhs, rhs) IN
    IF Ok(l.st) THEN CmpRes(l.st, ~l.res) ELSE l

Comparators == {"Equal", "Less", "NotEqual", "Greater", "LessOrEqual", "GreaterOrEqual"}

Compare(cmp, st, lhs, rhs) ==
    CASE cmp = "Equal" -> Equal(st, lhs, rhs)
      [] cmp = "Less" -> Less(st, lhs, rhs)
      [] cmp = "NotEqual" -> NotEqual(st, lhs, rhs)
      [] cmp = "Greater" -> Greater(st, lhs, rhs)
      [] cmp = "LessOrEqual" -> LessOrEqual(st, lhs, rhs)
      [] cmp = "GreaterOrEqual" -> GreaterOrEqual(st, lhs, rhs)

(***************************************************************************)
(* AST nodes                                                               *)
(***************************************************************************)
Var(ids) == [node |-> "VariableValue", dotted_ids |-> ids]
Assign(var, rv) == [node |-> "Assignment", var |-> var, rv |-> rv]
FieldAssign(object, field_name, rv) ==
    [node |-> "FieldAssignment", object |-> object, field_name |-> field_name, rv |-> rv]
PrintOf(args) == [node |-> "Print", args |-> args]
MethodCallOf(object, method, args) ==
    [node |-> "MethodCall", object |-> object, method |-> method, args |-> args]
NewInstanceOf(class_ref, args) ==
    [node |-> "NewInstance", class_ref |-> class_ref, args |-> args]
Compound(statements) == [node |-> "Compound", statements |-> statements]
Return(statement) == [node |-> "Return", statement |-> statement]
MethodBody(body) == [node |-> "MethodBody", body |-> body]
IfElse(condition, if_body, else_body) ==
    [node |-> "IfElse", condition |-> condition, if_body |-> if_body,
     else_body |-> else_body]
Sub(lhs, rhs) == [node |-> "Sub", lhs |-> lhs, rhs |-> rhs]
Mult(lhs, rhs) == [node |-> "Mult", lhs |-> lhs, rhs |-> rhs]
Div(lhs, rhs) == [node |-> "Div", lhs |-> lhs, rhs |-> rhs]
Or(lhs, rhs) == [node |-> "Or", lhs |-> lhs, rhs |-> rhs]
And(lhs, rhs) == [node |-> "And", lhs |-> lhs, rhs |-> rhs]
Not(operation) == [node |-> "Not", operation |-> operation]
\* a std::unique_ptr<Statement> that holds no statement
NullStatement == [node |-> "nullptr"]
Method(name, formal_params, body) ==
    [name |-> name, formal_params |-> formal_params, body |-> body]

(***************************************************************************)
(* The classes of the program under evaluation:                            *)
(*   class Base:                     class Derived(Base):    class Plain:  *)
(*     def __init__(self, v):          def pair(self, a, b):               *)
(*       self.f = v                      return b                          *)
(*     def get(self):                  def get(self):                      *)
(*       return self.f                   t = self.f                        *)
(*     def id(self, v):                  return t                          *)
(*       t = v                                                             *)
(*       return t                                                          *)
(*     def early(self, v):                                                 *)
(*       return v                                                          *)
(*       self.f = v                                                        *)
(*       print v                                                           *)
(***************************************************************************)
BaseMethods ==
    <<Method("__init__", <<"v">>,
        MethodBody(Compound(<<FieldAssign(Var(<<"self">>), "f", Var(<<"v">>))>>))),
      Method("get", <<>>,
        MethodBody(Compound(<<Return(Var(<<"self", "f">>))>>))),
      Method("id", <<"v">>,
        MethodBody(Compound(<<Assign("t", Var(<<"v">>)), Return(Var(<<"t">>))>>))),
      Method("early", <<"v">>,
        MethodBody(Compound(<<Return(Var(<<"v">>)),
                              FieldAssign(Var(<<"self">>), "f", Var(<<"v">>)),
                              PrintOf(<<Var(<<"v">>)>>)>>)))>>

DerivedMethods ==
    <<Method("pair", <<"a", "b">>,
        MethodBody(Compound(<<Return(Var(<<"b">>))>>))),
      Method("get", <<>>,
        MethodBody(Compound(<<Assign("t", Var(<<"self", "f">>)), Return(Var(<<"t">>))>>)))>>

BaseName == <<"B", "a", "s", "e">>
DerivedName == <<"D", "e", "r", "i", "v", "e", "d">>
PlainName == <<"P", "l", "a", "i", "n">>

ProgramClasses ==
    LET t1 == <<ClassCtor(<<>>, 1, BaseName, BaseMethods, 0)>>
        t2 == Append(t1, ClassCtor(t1, 2, DerivedName, DerivedMethods, 1))
    IN  Append(t2, ClassCtor(t2, 3, PlainName, <<>>, 0))

(***************************************************************************)
(* The evaluator: the host executes top-level statements in the module     *)
(* scope and calls methods of the instances that scope holds.              *)
(***************************************************************************)
ArgValues == {None, Num(1)}

ArgLists == UNION {[1..n -> ArgValues] : n \in 0..2}

CallNames == {"__init__", "get", "id", "early", "pair", "nope"}

TopStatements ==
    {Assign("o", NewInstanceOf(c, args)) : c \in 1..3, args \in {<<>>, <<Var(<<"x">>)>>}}
    \cup {PrintOf(<<Var(<<"x">>)>>),
          PrintOf(<<Var(<<"o">>), Var(<<"o", "f">>)>>),
          FieldAssign(Var(<<"o">>), "f", Var(<<"x">>)),
          MethodCallOf(Var(<<"o">>), "early", <<Var(<<"x">>)>>),
          Assign("x", MethodCallOf(Var(<<"o">>), "id", <<Var(<<"x">>)>>)),
          Assign("x", Var(<<"o", "f">>))}

Allocates(n) == n.node = "Assignment" /\ n.rv.node = "NewInstance"

EvalInit ==
    /\ classes = ProgramClasses
    /\ heap = <<>>
    /\ \E v \in ArgValues : closure = MapPut(<<>>, "x", v)
    /\ output = <<>>
    /\ last = NoLast
    /\ lx = LexStart(<<>>)
    /\ cur = 0
    /\ op = "none"
    /\ ret = NoToken

Running == last.err # "undefined"

\* Statement::Execute of a top-level statement on the module scope
ExecuteStatement ==
    /\ Running
    /\ \E n \in TopStatements :
          LET r == Execute(n, ExecState(closure, heap, output)) IN
          /\ Allocates(n) => Len(heap) < MaxInstances
          /\ Len(r.st.output) <= MaxOutput
          /\ closure' = r.st.closure
          /\ heap' = r.st.heap
          /\ output' = r.st.output
          /\ last' = [op |-> "Execute", statement |-> n, val |-> r.val,
                      err |-> r.st.err, log |-> r.st.log]
    /\ UNCHANGED <<lexvars, classvars>>

\* ClassInstance::Call by the host on an instance the module scope holds
CallMethod ==
    /\ Running
    /\ \E name \in DOMAIN closure, method \in CallNames, actual_args \in ArgLists :
          /\ IsInst(closure[name])
          /\ LET r == Call(ExecState(closure, heap, output), closure[name].a,
                           method, actual_args) IN
             /\ Len(r.st.output) <= MaxOutput
             /\ closure' = r.st.closure
             /\ heap' = r.st.heap
             /\ output' = r.st.output
             /\ last' = [op |-> "Call", instance |-> closure[name].a,
                         method |-> method, actual_args |-> actual_args,
                         val |-> r.val, err |-> r.st.err,
                         log |-> r.st.log]
    /\ UNCHANGED <<lexvars, classvars>>

EvalNext == ExecuteStatement \/ CallMethod

Spec == EvalInit /\ [][EvalNext]_vars

(***************************************************************************)
(* A second program, for the expressions, the conditional and the          *)
(* comparisons.  Its classes:                                              *)
(*   class Cmp:                          class Plain:                      *)
(*     def __eq__(self, other):            def __eq__(self):               *)
(*       return self.r                       return self                   *)
(*     def __lt__(self, other):                                            *)
(*       return self.r                                                     *)
(*     def peek(self):                                                     *)
(*       return x                                                          *)
(*     def shadow(self, v):                                                *)
(*       x = v                                                             *)
(*       t = v                                                             *)
(*       self.f = v                                                        *)
(*     def fail(self):                                                     *)
(*       self.h = self.r                                                   *)
(*       nope                                                              *)
(*       self.after = self.r                                               *)
(* The bodies of __eq__, __lt__ and peek are the Return itself, the others *)
(* a Compound.  The module scope binds x and y to any two values, o to a   *)
(* Cmp instance whose field r holds what its __eq__ and __lt__ return, and *)
(* yes, one, zero to True, 1, 0.                                           *)
(***************************************************************************)
CmpMethods ==
    <<Method("__eq__", <<"other">>, MethodBody(Return(Var(<<"self", "r">>)))),
      Method("__lt__", <<"other">>, MethodBody(Return(Var(<<"self", "r">>)))),
      Method("peek", <<>>, MethodBody(Return(Var(<<"x">>)))),
      Method("shadow", <<"v">>,
        MethodBody(Compound(<<Assign("x", Var(<<"v">>)),
                              Assign("t", Var(<<"v">>)),
                              FieldAssign(Var(<<"self">>), "f", Var(<<"v">>))>>))),
      Method("fail", <<>>,
        MethodBody(Compound(<<FieldAssign(Var(<<"self">>), "h", Var(<<"self", "r">>)),
                              Var(<<"nope">>),
                              FieldAssign(Var(<<"self">>), "after", Var(<<"self", "r">>))>>)))>>

PlainMethods ==
    <<Method("__eq__", <<>>, MethodBody(Return(Var(<<"self">>))))>>

CmpName == <<"C", "m", "p">>

ExprClasses ==
    LET t1 == <<ClassCtor(<<>>, 1, CmpName, CmpMethods, 0)>>
    IN  Append(t1, ClassCtor(t1, 2, PlainName, PlainMethods, 0))

ExprValues ==
    {None, Num(0), Num(1), Num(IntMax), Boolean(TRUE), Boolean(FALSE),
     Str(<<>>), Str(<<"a">>), Str(<<"b">>), Inst(1), Inst(2)}

DunderResults == {Boolean(TRUE), Boolean(FALSE), None, Num(1)}

ExprScope(x, y) ==
    [n \in {"x", "y", "o", "yes", "one", "zero"} |->
        CASE n = "x" -> x [] n = "y" -> y [] n = "o" -> Inst(1)
          [] n = "yes" -> Boolean(TRUE) [] n = "one" -> Num(1) [] n = "zero" -> Num(0)]

X == Var(<<"x">>)
Y == Var(<<"y">>)
One == Var(<<"one">>)
O == Var(<<"o">>)

CondStatements ==
    {IfElse(X, Assign("p", One), Assign("q", One)),
     IfElse(X, Assign("p", One), NullStatement)}

LogicStatements ==
    {And(Assign("p", X), Assign("q", Y)),
     Or(Assign("p", X), Assign("q", Y)),
     And(Assign("p", X), Assign("q", Var(<<"p">>))),
     Or(Assign("p", X), Assign("q", Var(<<"p">>))),
     Or(NullStatement, Assign("q", Y)),
     And(Assign("p", X), NullStatement),
     Not(X)}

\* a statement, between a print and an assignment
Between(n) == Compound(<<PrintOf(<<One>>), n, Assign("after", One)>>)

ArithStatements ==
    {Sub(X, Y), Mult(X, Y), Div(X, Y), Sub(NullStatement, Y), Div(X, NullStatement),
     Mult(NullStatement, Y),
     Between(Assign("t", Sub(X, Y))), Between(Assign("t", Mult(X, Y))),
     Between(Assign("t", Div(X, Y)))}

\* the nodes that throw in every scope of the model
Failing == {Var(<<"nope">>), Div(One, Var(<<"zero">>))}

\* each kind of statement, around a node
Around(n) ==
    {n, Compound(<<n>>), IfElse(Var(<<"yes">>), n, NullStatement), IfElse(n, One, One),
     PrintOf(<<One, n>>), Assign("t", n), FieldAssign(O, "g", n),
     MethodCallOf(O, "shadow", <<n>>), MethodCallOf(n, "shadow", <<One>>),
     Compound(<<Compound(<<PrintOf(<<One>>), Assign("t", n)>>), Assign("u", One)>>)}

ErrorStatements ==
    {Between(w) : w \in UNION {Around(n) : n \in Failing}}
    \cup {Between(MethodCallOf(O, "fail", <<>>))}

ScopeStatements ==
    {MethodCallOf(O, "peek", <<>>),
     MethodCallOf(O, "shadow", <<Y>>),
     Assign("t", MethodCallOf(O, "shadow", <<Y>>)),
     Between(Assign("t", One))}

ExprStatements ==
    CondStatements \cup LogicStatements \cup ArithStatements
    \cup ErrorStatements \cup ScopeStatements

ExprInit ==
    /\ classes = ExprClasses
    /\ \E r \in DunderResults :
          heap = <<[cls |-> 1, fields |-> MapPut(<<>>, "r", r)],
                   [cls |-> 2, fields |-> <<>>]>>
    /\ \E x \in ExprValues, y \in ExprValues : closure = ExprScope(x, y)
    /\ output = <<>>
    /\ last = NoLast
    /\ lx = LexStart(<<>>)
    /\ cur = 0
    /\ op = "none"
    /\ ret = NoToken

\* the host runs one statement, or makes one comparison, on the scope
Fresh == last.op = "none"

ExecuteExpr ==
    /\ Fresh
    /\ \E n \in ExprStatements, ub \in UndefinedOutcomes :
          LET r == Execute(n, ExecStateUB(closure, heap, output, ub)) IN
          /\ closure' = r.st.closure
          /\ heap' = r.st.heap
          /\ output' = r.st.output
          /\ last' = [op |-> "Execute", statement |-> n, val |-> r.val,
                      err |-> r.st.err, what |-> r.st.what]
    /\ UNCHANGED <<lexvars, classvars>>

\* what one comparison leaves behind: the state it ended in and its result
Compared(cmp, c) ==
    /\ closure' = c.st.closure
    /\ heap' = c.st.heap
    /\ output' = c.st.output
    /\ last' = [op |-> "Compare", cmp |-> cmp, res |-> c.res,
                err |-> c.st.err, what |-> c.st.what, log |-> c.st.log]

\* the host calls runtime::Equal .. runtime::GreaterOrEqual on x and y
CompareValues ==
    /\ Fresh
    /\ \E cmp \in Comparators, ub \in UndefinedOutcomes :
          Compared(cmp, Compare(cmp, ExecStateUB(closure, heap, output, ub),
                                closure["x"], closure["y"]))
    /\ UNCHANGED <<lexvars, classvars>>

ExprNext == ExecuteExpr \/ CompareValues

SpecExpr == ExprInit /\ [][ExprNext]_vars

(***************************************************************************)
(* A third program, for the instances that several names hold: the host    *)
(* executes, one statement at a time on the module scope,                  *)
(*   a = Plain()   c = Plain()   b = a   b = c                             *)
(*   a.f = one   a.f = zero   (and so for b and c)                         *)
(*   t = a.f   (and so for b and c)                                        *)
(***************************************************************************)
ShareNames == {"a", "b", "c"}

ShareNew == {Assign(name, NewInstanceOf(3, <<>>)) : name \in {"a", "c"}}

ShareCopy == {Assign("b", Var(<<name>>)) : name \in {"a", "c"}}

ShareWrite ==
    {FieldAssign(Var(<<name>>), "f", Var(<<v>>)) :
        name \in ShareNames, v \in {"one", "zero"}}

ShareRead == {Assign("t", Var(<<name, "f">>)) : name \in ShareNames}

ShareStatements == ShareNew \cup ShareCopy \cup ShareWrite \cup ShareRead

ShareInit ==
    /\ classes = ProgramClasses
    /\ heap = <<>>
    /\ closure = MapPut(MapPut(<<>>, "one", Num(1)), "zero", Num(0))
    /\ output = <<>>
    /\ last = NoLast
    /\ lx = LexStart(<<>>)
    /\ cur = 0
    /\ op = "none"
    /\ ret = NoToken

\* Statement::Execute of the next statement on the module scope
ExecuteShared ==
    /\ Running
    /\ \E n \in ShareStatements :
          LET r == Execute(n, ExecState(closure, heap, output)) IN
          /\ n \in ShareNew => Len(heap) < MaxShared
          /\ closure' = r.st.closure
          /\ heap' = r.st.heap
          /\ output' = r.st.output
          /\ last' = [op |-> "Execute", statement |-> n, val |-> r.val,
                      err |-> r.st.err, log |-> r.st.log]
    /\ UNCHANGED <<lexvars, classvars>>

ShareNext == ExecuteShared

SpecShare == ShareInit /\ [][ShareNext]_vars

(***************************************************************************)
(* Evaluator claims                                                        *)
(***************************************************************************)
\* what the Return of each method of the program evaluates to in the call
\* frame, read off the program text
ReturnedValue(method, actual_args, fields) ==
    CASE method = "id" -> actual_args[1]
      [] method = "early" -> actual_args[1]
      [] method = "pair" -> actual_args[2]
      [] method = "get" -> fields["f"]

\* C1: Call of a method whose body is a Compound holding Return(e) returns
\* the value of e in the call frame.
C1_CallReturnsReturnValue ==
    (last.op = "Call" /\ last.err = "none"
        /\ last.method \in {"id", "early", "pair", "get"}) =>
        last.val = ReturnedValue(last.method, last.actual_args,
                                 heap[last.instance].fields)

\* C2: the statements that follow a Return in a method body are not
\* executed: a call of early(v), whose body starts with return v, changes
\* no instance field and writes nothing to the output stream.
C2_NothingRunsAfterReturn ==
    [][(last'.op = "Call" /\ last'.method = "early" /\ last'.log # <<>>) =>
          (heap' = heap /\ output' = output)]_vars

\* C3: NewInstance on a class with __init__ of as many parameters as there
\* are args returns an instance on which __init__ has run with the args (f
\* holds the argument), and an instance without fields otherwise.
C3_NewInstanceRunsInit ==
    (last.op = "Execute" /\ Allocates(last.statement) /\ last.err = "none") =>
        LET new == last.statement.rv
            fields == heap[last.val.a].fields
        IN  IF HasMethod(classes[new.class_ref], "__init__", Len(new.args))
            THEN "f" \in DOMAIN fields /\ fields["f"] = closure["x"]
            ELSE fields = <<>>

\* C9: Call throws and starts no method body when the merged method map has
\* no such method or the parameter count differs from the argument count;
\* otherwise it starts that method's body once, in a scope holding exactly
\* self and each parameter bound to the argument at its position.
C9_CallDispatch ==
    last.op = "Call" =>
        LET method_ptr == GetMethod(ClassOf(heap, last.instance), last.method)
            started == {i \in 1..Len(last.log) : last.log[i].depth = 1}
        IN  IF method_ptr = NoMethod
               \/ Len(MethodAt(classes, method_ptr).formal_params) # Len(last.actual_args)
            THEN last.err = "runtime_error" /\ last.log = <<>>
            ELSE LET formal_params == MethodAt(classes, method_ptr).formal_params
                     frame == last.log[1].frame
                 IN  /\ Cardinality(started) = 1
                     /\ last.log[1].method_ptr = method_ptr
                     /\ DOMAIN frame = {"self"} \cup {formal_params[i] : i \in 1..Len(formal_params)}
                     /\ frame["self"] = Inst(last.instance)
                     /\ \A i \in 1..Len(formal_params) :
                           frame[formal_params[i]] = last.actual_args[i]

\* an inherited instance was called with two arguments that differ
C9_Witness ==
    /\ last.op = "Call"
    /\ last.method = "pair"
    /\ last.err = "none"
    /\ Len(last.log) = 1
    /\ last.actual_args = <<Num(1), None>>

(***************************************************************************)
(* Claims on the expressions, the conditional and the comparisons          *)
(***************************************************************************)
Executed(n) == last.op = "Execute" /\ last.statement = n

Bound(scope, name, v) == name \in DOMAIN scope /\ scope[name] = v

\* C11: IfElse whose condition evaluates to a value that is not a Bool
\* raises a runtime error, and neither branch is executed.
C11_NonBoolConditionRaises ==
    (last.op = "Execute" /\ last.statement \in CondStatements
        /\ closure["x"].t # "Bool") =>
        /\ last.err = "runtime_error"
        /\ "p" \notin DOMAIN closure
        /\ "q" \notin DOMAIN closure

\* C12: when Equal or Less calls __eq__ or __lt__ of the left operand and
\* the method returns a value that is not a Bool, the comparison raises a
\* runtime error.
C12_NonBoolDunderRaises ==
    (last.op = "Compare" /\ last.cmp \in {"Equal", "Less"}
        /\ closure["x"] = Inst(1) /\ heap[1].fields["r"].t # "Bool") =>
        last.err = "runtime_error"

\* whether the class of an instance has the method with one parameter,
\* read off the class's own list of methods (the classes have no parent)
DefinesUnary(v, name) ==
    /\ IsInst(v)
    /\ \E i \in 1..Len(classes[heap[v.a].cls].methods) :
          LET m == classes[heap[v.a].cls].methods[i] IN
          m.name = name /\ Len(m.formal_params) = 1

DunderOf(cmp) == IF cmp = "Equal" THEN "__eq__" ELSE "__lt__"

\* one method body was started: the left operand's name, on the right operand
Dispatched(name, lhs, rhs) ==
    /\ Len(last.log) = 1
    /\ MethodAt(classes, last.log[1].method_ptr).name = name
    /\ last.log[1].frame["self"] = lhs
    /\ last.log[1].frame["other"] = rhs

ComputedFromValues(cmp, lhs, rhs) ==
    /\ last.err = "none"
    /\ last.log = <<>>
    /\ last.res = IF cmp = "Equal" THEN EqualPrimitive(lhs, rhs)
                  ELSE LessPrimitive(lhs, rhs)

\* C13 as stated: same primitive variant, the result is computed from the
\* values; otherwise the left instance's __eq__ / __lt__ of one parameter is
\* called if there is one; otherwise a runtime error, except that Equal of
\* two None is true; and Equal is never true for None paired with a value
\* that is not None.  The last part is stated for the calls in which the
\* method called, if any, returns a Bool.
C13_AsStated ==
    (last.op = "Compare" /\ last.cmp \in {"Equal", "Less"}) =>
        LET lhs == closure["x"]
            rhs == closure["y"]
        IN  /\ IF SamePrimitive(lhs, rhs) THEN ComputedFromValues(last.cmp, lhs, rhs)
               ELSE IF last.cmp = "Equal" /\ lhs = None /\ rhs = None
                    THEN last.err = "none" /\ last.res /\ last.log = <<>>
               ELSE IF DefinesUnary(lhs, DunderOf(last.cmp))
                    THEN Dispatched(DunderOf(last.cmp), lhs, rhs)
               ELSE last.err = "runtime_error" /\ last.log = <<>>
            /\ (last.cmp = "Equal" /\ ((lhs = None) # (rhs = None))
                  /\ heap[1].fields["r"].t = "Bool") =>
                  ~(last.err = "none" /\ last.res)

\* C13, amended: as stated, but Equal of a left instance that has __eq__ of
\* one parameter and a None right operand is what the call of __eq__ gives:
\* when the method called returns a Bool, that Bool is the result.
C13_EqualLessDispatch ==
    (last.op = "Compare" /\ last.cmp \in {"Equal", "Less"}) =>
        LET lhs == closure["x"]
            rhs == closure["y"]
            returned == heap[1].fields["r"]
        IN  IF SamePrimitive(lhs, rhs) THEN ComputedFromValues(last.cmp, lhs, rhs)
            ELSE IF last.cmp = "Equal" /\ lhs = None /\ rhs = None
                 THEN last.err = "none" /\ last.res /\ last.log = <<>>
            ELSE IF DefinesUnary(lhs, DunderOf(last.cmp))
                 THEN /\ Dispatched(DunderOf(last.cmp), lhs, rhs)
                      /\ returned.t = "Bool" =>
                            (last.err = "none" /\ last.res = returned.b)
            ELSE last.err = "runtime_error" /\ last.log = <<>>

\* Equal of an instance whose __eq__ returns True and a None right operand
C13_Witness ==
    /\ last.op = "Compare"
    /\ last.cmp = "Equal"
    /\ closure["x"] = Inst(1)
    /\ closure["y"] = None
    /\ last.err = "none"
    /\ last.res

\* C14: And and Or evaluate the left operand, then the right operand,
\* whatever the left one is; the result is the Bool conjunction or
\* disjunction when both values are Bool and a runtime error otherwise; Not
\* of a value that is not a Bool is a runtime error.
C14_BothOperandsEvaluated ==
    LET x == closure["x"]
        y == closure["y"]
        bools == x.t = "Bool" /\ y.t = "Bool"
    IN  /\ Executed(And(Assign("p", X), Assign("q", Y))) =>
              /\ Bound(closure, "p", x) /\ Bound(closure, "q", y)
              /\ IF bools THEN last.err = "none" /\ last.val = Boolean(x.b /\ y.b)
                 ELSE last.err = "runtime_error"
        /\ Executed(Or(Assign("p", X), Assign("q", Y))) =>
              /\ Bound(closure, "p", x) /\ Bound(closure, "q", y)
              /\ IF bools THEN last.err = "none" /\ last.val = Boolean(x.b \/ y.b)
                 ELSE last.err = "runtime_error"
        /\ (Executed(And(Assign("p", X), Assign("q", Var(<<"p">>))))
              \/ Executed(Or(Assign("p", X), Assign("q", Var(<<"p">>))))) =>
              /\ Bound(closure, "p", x) /\ Bound(closure, "q", x)
              /\ IF x.t = "Bool" THEN last.err = "none" /\ last.val = x
                 ELSE last.err = "runtime_error"
        /\ Executed(Not(X)) =>
              IF x.t = "Bool" THEN last.err = "none" /\ last.val = Boolean(~x.b)
              ELSE last.err = "runtime_error"

\* Or with a left operand that is True and a right operand that is not a
\* Bool: the right operand was evaluated, and the operation raised
C14_Witness ==
    /\ Executed(Or(Assign("p", X), Assign("q", Y)))
    /\ closure["x"] = Boolean(TRUE)
    /\ Bound(closure, "q", Num(1))
    /\ last.err = "runtime_error"

\* the error each failing node of the model raises
WhatOf(n) == IF n = Var(<<"nope">>) THEN "variable is not found" ELSE "zero divizion"

\* C15: a runtime error raised by a node ends every enclosing Compound,
\* IfElse, Print, Assignment, FieldAssignment, MethodCall and MethodBody
\* with that error: the statements that follow in the enclosing Compounds do
\* not run, the failing Assignment or FieldAssignment binds nothing, and
\* what was written to the output before the error is still there.
C15_ErrorsPropagate ==
    /\ \A n \in Failing : \A w \in Around(n) :
          Executed(Between(w)) =>
              /\ last.err = "runtime_error"
              /\ last.what = WhatOf(n)
              /\ DOMAIN closure = DOMAIN ExprScope(None, None)
              /\ DOMAIN heap[1].fields = {"r"}
              /\ output = <<"1", NL>> \o
                    (IF w = PrintOf(<<One, n>>) THEN <<"1", SP>>
                     ELSE IF w.node = "Compound" /\ Len(w.statements) = 2 THEN <<"1", NL>>
                     ELSE <<>>)
    /\ Executed(Between(MethodCallOf(O, "fail", <<>>))) =>
          /\ last.err = "runtime_error"
          /\ last.what = "variable is not found"
          /\ DOMAIN closure = DOMAIN ExprScope(None, None)
          /\ DOMAIN heap[1].fields = {"r", "h"}
          /\ output = <<"1", NL>>

\* a division by zero on the right of a FieldAssignment, after a print
C15_Witness ==
    /\ Executed(Between(FieldAssign(O, "g", Div(One, Var(<<"zero">>)))))
    /\ last.err = "runtime_error"
    /\ output = <<"1", NL>>

\* C16: a name bound only in the caller's scope is not found inside a
\* method body; after the call the caller's scope holds the bindings it
\* held before, whatever plain names the body assigned, and the field the
\* body set through self is set.
C16_ScopesDoNotChain ==
    [][/\ (last'.op = "Execute" /\ last'.statement = MethodCallOf(O, "peek", <<>>)) =>
            /\ "x" \in DOMAIN closure
            /\ last'.err = "runtime_error"
            /\ last'.what = "variable is not found"
            /\ closure' = closure
            /\ heap' = heap
       /\ (last'.op = "Execute" /\ last'.statement = MethodCallOf(O, "shadow", <<Y>>)) =>
            /\ last'.err = "none"
            /\ closure' = closure
            /\ heap' = [heap EXCEPT ![1].fields = MapPut(@, "f", closure["y"])]
       /\ (last'.op = "Execute"
             /\ last'.statement = Assign("t", MethodCallOf(O, "shadow", <<Y>>))) =>
            /\ last'.err = "none"
            /\ closure' = MapPut(closure, "t", None)
            /\ heap' = [heap EXCEPT ![1].fields = MapPut(@, "f", closure["y"])]]_vars

\* shadow(y) has assigned x and t in its frame and f through self
C16_Witness ==
    /\ Executed(MethodCallOf(O, "shadow", <<Y>>))
    /\ closure["x"] = Num(0)
    /\ closure["y"] = Num(1)
    /\ Bound(heap[1].fields, "f", Num(1))
    /\ "t" \notin DOMAIN closure

\* C18: IfElse built without an else branch, on a condition that is Bool
\* false, executes nothing, raises no error and returns None.
C18_MissingElseIsEmpty ==
    (Executed(IfElse(X, Assign("p", One), NullStatement))
        /\ closure["x"] = Boolean(FALSE)) =>
        /\ last.err = "none"
        /\ last.val = None
        /\ "p" \notin DOMAIN closure

\* C19: Sub, Mult and Div return a Number only when both operands are
\* Numbers and raise a runtime error for any other pair of operands; Div by
\* the Number 0 raises a runtime error and returns nothing, and what ran
\* before the division keeps its effect: the earlier print is on the output.
C19_IntegerOnlyArithmetic ==
    LET x == closure["x"]
        y == closure["y"]
        numbers == x.t = "Number" /\ y.t = "Number"
    IN  /\ \A n \in {Sub(X, Y), Mult(X, Y), Div(X, Y)} :
              Executed(n) =>
                  /\ (last.err = "none" /\ last.val.t = "Number") => numbers
                  /\ ~numbers => (last.err = "runtime_error" /\ last.val = None)
        /\ (Executed(Div(X, Y)) /\ numbers /\ y.n = 0) =>
              (last.err = "runtime_error" /\ last.val = None)
        /\ (Executed(Between(Assign("t", Div(X, Y)))) /\ numbers /\ y.n = 0) =>
              /\ last.err = "runtime_error"
              /\ output = <<"1", NL>>
              /\ "t" \notin DOMAIN closure
              /\ "after" \notin DOMAIN closure

\* 1 / 0 between a print and an assignment
C19_Witness ==
    /\ Executed(Between(Assign("t", Div(X, Y))))
    /\ closure["x"] = Num(1)
    /\ closure["y"] = Num(0)
    /\ last.err = "runtime_error"
    /\ output = <<"1", NL>>

\* the six comparisons of two values, each made in the state the host sees
SixComparisons(lhs, rhs) ==
    [cmp \in Comparators |->
        Compare(cmp, ExecState(closure, heap, output), lhs, rhs)]

\* C23: for x and y of the same primitive variant none of the six
\* comparators raises an error, Equal holds exactly when NotEqual does not,
\* GreaterOrEqual exactly when Less does not, LessOrEqual exactly when Less
\* or Equal holds, and Greater exactly when neither Less nor Equal holds; the
\* comparison the host made returned the value these relations fix.
C23_ComparatorsAgree ==
    (last.op = "Compare" /\ SamePrimitive(closure["x"], closure["y"])) =>
        LET six == SixComparisons(closure["x"], closure["y"]) IN
        /\ last.err = "none"
        /\ last.res = six[last.cmp].res
        /\ \A cmp \in Comparators : Ok(six[cmp].st)
        /\ six["Equal"].res <=> ~six["NotEqual"].res
        /\ six["GreaterOrEqual"].res <=> ~six["Less"].res
        /\ six["LessOrEqual"].res <=> (six["Less"].res \/ six["Equal"].res)
        /\ six["Greater"].res <=> (~six["Less"].res /\ ~six["Equal"].res)

\* Greater was asked of two equal Strings and answered no
C23_Witness ==
    /\ last.op = "Compare"
    /\ last.cmp = "Greater"
    /\ closure["x"] = Str(<<"b">>)
    /\ closure["y"] = Str(<<"b">>)
    /\ last.err = "none"
    /\ last.res = FALSE

\* the name the host wrote or read a field through
Through(name, v) ==
    /\ last.op = "Execute"
    /\ last.statement = FieldAssign(Var(<<name>>), "f", Var(<<v>>))
    /\ last.err = "none"

\* what the dotted VariableValue name.f evaluates to on the module scope
ReadBack(name, clo, hp) ==
    ExecVariableValue(Var(<<name, "f">>), ExecState(clo, hp, output)).val

\* C24: a FieldAssignment through one name is read back by the dotted
\* VariableValue through every name that holds the same instance, a copy
\* made by Assignment included, and it leaves the fields of every other
\* instance as they were.
C24_FieldsSharedByHandle ==
    [][\A name \in ShareNames, v \in {"one", "zero"} :
          Through(name, v)' =>
              /\ closure' = closure
              /\ Len(heap') = Len(heap)
              /\ \A other \in ShareNames \cap DOMAIN closure :
                    closure[other] = closure[name] =>
                        ReadBack(other, closure', heap') = closure[v]
              /\ \A a \in 1..Len(heap) :
                    a # closure[name].a => heap'[a] = heap[a]]_vars

\* b, a copy of a, was written through; a reads the value back and c, a
\* second instance of the class, keeps its own
C24_Witness ==
    /\ Through("b", "one")
    /\ {"a", "b", "c"} \subseteq DOMAIN closure
    /\ closure["b"] = closure["a"]
    /\ closure["c"] # closure["a"]
    /\ heap[closure["c"].a].cls = heap[closure["a"].a].cls
    /\ ReadBack("a", closure, heap) = Num(1)
    /\ ReadBack("c", closure, heap) = Num(0)
====
